---------------------------- MODULE Spec2Model ----------------------------
(***************************************************************************)
(* A model of js/statistics.js: the numeric coercion helpers, the          *)
(* descriptive statistics (mean, variance, quantile, median, summary),     *)
(* the Abramowitz-Stegun approximations of the t and F distributions, and  *)
(* the inferential tests built on them (tTest, pearsonCorrelation, anova). *)
(*                                                                         *)
(* JavaScript values are records [t, k, v, a]:                             *)
(*   t = "number"    k = "fin" | "nan" | "inf" | "ninf", v the magnitude   *)
(*   t = "null", "undefined"                                               *)
(*   t = "string"    k the text                                            *)
(*   t = "boolean"   k = "true" | "false"                                  *)
(*   t = "array"     a the sequence of elements                            *)
(*   t = "object"    a a function from keys to values                      *)
(*                                                                         *)
(* IEEE doubles are modelled as decimal fixed-point numbers: a finite      *)
(* number is an integer count v of 1/Scale units.  Addition and            *)
(* subtraction are exact, multiplication, division and square root round   *)
(* to the nearest unit, and a result whose magnitude exceeds MaxFin        *)
(* overflows to +-Infinity as an IEEE overflow does.  NaN and the          *)
(* infinities propagate by the IEEE rules.  The sign of zero is not        *)
(* modelled: every zero divisor on the modelled paths is +0, except the    *)
(* one of anova on two one-element groups, whose quotient is multiplied    *)
(* into a NaN.                                                             *)
(***************************************************************************)
EXTENDS Integers, Sequences, FiniteSets, TLC

(***************************************************************************)
(* Fixed-point numbers                                                     *)
(***************************************************************************)
Scale == 100 * 100
MaxFin == 20000 * Scale

Fin(v) == [t |-> "number", k |-> "fin", v |-> v, a |-> << >>]
NaN == [t |-> "number", k |-> "nan", v |-> 0, a |-> << >>]
Infinity == [t |-> "number", k |-> "inf", v |-> 0, a |-> << >>]
NegInfinity == [t |-> "number", k |-> "ninf", v |-> 0, a |-> << >>]
Null == [t |-> "null", k |-> "", v |-> 0, a |-> << >>]
Undefined == [t |-> "undefined", k |-> "", v |-> 0, a |-> << >>]
Str(s) == [t |-> "string", k |-> s, v |-> 0, a |-> << >>]
False == [t |-> "boolean", k |-> "false", v |-> 0, a |-> << >>]
Arr(s) == [t |-> "array", k |-> "", v |-> 0, a |-> s]
Obj(f) == [t |-> "object", k |-> "", v |-> 0, a |-> f]
Int2Num(i) == Fin(i * Scale)

Abs(i) == IF i < 0 THEN -i ELSE i
Sgn(i) == IF i < 0 THEN -1 ELSE IF i > 0 THEN 1 ELSE 0
IsFin(x) == x.k = "fin"
IsNaN(x) == x.k = "nan"
\* The sign of a number that is not NaN.
SignOf(x) == IF x.k = "inf" THEN 1 ELSE IF x.k = "ninf" THEN -1 ELSE Sgn(x.v)
Signed(s, x) == IF s >= 0 THEN x ELSE
                IF x.k = "inf" THEN NegInfinity ELSE
                IF x.k = "ninf" THEN Infinity ELSE
                IF x.k = "fin" THEN Fin(-x.v) ELSE x
\* A magnitude beyond the finite range overflows to Infinity.
Clip(v) == IF v > MaxFin THEN Infinity ELSE IF v < -MaxFin THEN NegInfinity ELSE Fin(v)

\* a * b / Scale rounded to the nearest unit (a, b >= 0), computed on the
\* halves of a and b so that no intermediate leaves 32 bits; a result above
\* MaxFin is reported as MaxFin + 1.
MulScaled(a, b) ==
    LET ah == a \div Scale
        al == a % Scale
        bh == b \div Scale
        bl == b % Scale
    IN  IF ah > 0 /\ bh > (MaxFin \div Scale) \div ah THEN MaxFin + 1
        ELSE LET q == ah * bh * Scale + ah * bl + al * bh + (al * bl) \div Scale
                 r == (al * bl) % Scale
             IN  IF q > MaxFin THEN MaxFin + 1 ELSE q + (IF 2 * r >= Scale THEN 1 ELSE 0)

\* One decimal digit of a long division: <<quotient so far, remainder>>.
DivStep(qr, d) ==
    IF qr[1] > MaxFin THEN qr
    ELSE <<10 * qr[1] + ((10 * qr[2]) \div d), (10 * qr[2]) % d>>

\* a * Scale / d rounded to the nearest unit (a >= 0, 0 < d <= MaxFin), by
\* long division, one decimal digit of Scale at a time.
DivScaled(a, d) ==
    LET qr == DivStep(DivStep(DivStep(DivStep(<<a \div d, a % d>>, d), d), d), d)
    IN  IF qr[1] > MaxFin THEN MaxFin + 1
        ELSE qr[1] + (IF 2 * qr[2] >= d THEN 1 ELSE 0)

\* The whole part of the square root of n (0 <= n < 2 * 10^9).
RECURSIVE ISqrt(_)
ISqrt(n) == IF n < 2 THEN n
            ELSE LET r == 2 * ISqrt(n \div 4)
                 IN  IF (r + 1) * (r + 1) <= n THEN r + 1 ELSE r

\* The square root of n rounded to the nearest integer.
RSqrt(n) == LET r == ISqrt(n) IN IF n - r * r > r THEN r + 1 ELSE r

(***************************************************************************)
(* IEEE arithmetic on numbers (the operands are numbers already)           *)
(***************************************************************************)
Neg(x) == Signed(-1, x)

Add(x, y) ==
    IF IsNaN(x) \/ IsNaN(y) THEN NaN
    ELSE IF IsFin(x) /\ IsFin(y) THEN Clip(x.v + y.v)
    ELSE IF IsFin(x) THEN y
    ELSE IF IsFin(y) THEN x
    ELSE IF x.k = y.k THEN x ELSE NaN

Sub(x, y) == Add(x, Neg(y))

Mul(x, y) ==
    IF IsNaN(x) \/ IsNaN(y) THEN NaN
    ELSE IF IsFin(x) /\ IsFin(y)
         THEN Signed(Sgn(x.v) * Sgn(y.v), Clip(MulScaled(Abs(x.v), Abs(y.v))))
    ELSE IF SignOf(x) = 0 \/ SignOf(y) = 0 THEN NaN
    ELSE Signed(SignOf(x) * SignOf(y), Infinity)

Div(x, y) ==
    IF IsNaN(x) \/ IsNaN(y) THEN NaN
    ELSE IF IsFin(x) /\ IsFin(y)
         THEN IF y.v = 0
              THEN (IF x.v = 0 THEN NaN ELSE Signed(Sgn(x.v), Infinity))
              ELSE Signed(Sgn(x.v) * Sgn(y.v), Clip(DivScaled(Abs(x.v), Abs(y.v))))
    ELSE IF IsFin(x) THEN Fin(0)
    ELSE IF IsFin(y) THEN Signed(SignOf(x) * (IF y.v < 0 THEN -1 ELSE 1), Infinity)
    ELSE NaN

\* Math.sqrt
Sqrt(x) ==
    IF IsNaN(x) \/ x.k = "ninf" THEN NaN
    ELSE IF x.k = "inf" THEN Infinity
    ELSE IF x.v < 0 THEN NaN
    ELSE IF x.v < 200000 THEN Fin(RSqrt(x.v * Scale))
    ELSE IF x.v < 20000000 THEN Fin(RSqrt(x.v * 100) * (ISqrt(Scale) \div 10))
    ELSE Fin(RSqrt(x.v) * ISqrt(Scale))

\* Math.pow(x, k) for a whole exponent k >= 1
RECURSIVE Pow(_, _)
Pow(x, k) == IF k = 1 THEN x
             ELSE IF k % 2 = 0 THEN LET h == Pow(x, k \div 2) IN Mul(h, h)
             ELSE Mul(Pow(x, k - 1), x)

\* Math.abs
MathAbs(x) == IF IsNaN(x) THEN NaN ELSE Signed(1, IF SignOf(x) < 0 THEN Neg(x) ELSE x)

\* Math.floor of a finite number, as a whole number
Floor(x) == x.v \div Scale

\* a < b on numbers (false when either is NaN)
Less(x, y) ==
    IF IsNaN(x) \/ IsNaN(y) THEN FALSE
    ELSE IF x.k = y.k THEN (IsFin(x) /\ x.v < y.v)
    ELSE x.k = "ninf" \/ y.k = "inf"

(***************************************************************************)
(* JavaScript coercion                                                     *)
(***************************************************************************)
Digits == <<"0", "1", "2", "3", "4", "5", "6", "7", "8", "9">>

\* Number(s) for a string: the empty string is 0, a digit its value, any
\* other text of the model's universe ("null", "abc") is NaN.
StringToNumber(s) ==
    IF s = "" THEN Fin(0)
    ELSE IF \E i \in 1..Len(Digits) : Digits[i] = s
         THEN Int2Num((CHOOSE i \in 1..Len(Digits) : Digits[i] = s) - 1)
    ELSE NaN

\* Number(x), the coercion of unary +, of the arithmetic operators and of isNaN.
ToNumber(x) ==
    CASE x.t = "number" -> x
      [] x.t = "null" -> Fin(0)
      [] x.t = "undefined" -> NaN
      [] x.t = "string" -> StringToNumber(x.k)
      [] x.t = "boolean" -> IF x.k = "true" THEN Int2Num(1) ELSE Fin(0)
      [] OTHER -> NaN

\* The global isNaN(x)
GlobalIsNaN(x) == IsNaN(ToNumber(x))

\* a === b on scalars: same type and same value, NaN equal to nothing.
StrictEq(a, b) ==
    /\ a.t = b.t
    /\ a.k = b.k
    /\ a.v = b.v
    /\ ~(a.t = "number" /\ a.k = "nan")

\* The bitwise OR of two comparison results: each boolean is coerced to 0 or 1.
BoolToInt(b) == IF b THEN 1 ELSE 0
BitOr01(a, b) == IF a + b > 0 THEN 1 ELSE 0

RECURSIVE SumNum(_)
SumNum(s) == IF s = << >> THEN Fin(0) ELSE Add(SumNum(SubSeq(s, 1, Len(s) - 1)), s[Len(s)])

(***************************************************************************)
(* Numeric coercion layer                                                  *)
(***************************************************************************)
isNumber(x) == ~GlobalIsNaN(x)

\* makeNumeric without its fallback to null: a value that is not numeric
\* stays NaN.
makeNumericNoFallback(x) == IF StrictEq(x, Null) THEN Null ELSE ToNumber(x)

makeNumeric(x) ==
    IF StrictEq(x, Null) THEN Null
    ELSE IF isNumber(x) THEN ToNumber(x)
    ELSE Null

\* x.map(makeNumeric): a new array.
mapMakeNumeric(x) == [i \in 1..Len(x) |-> makeNumeric(x[i])]

\* The test of countNull with & in place of |.
countNullTestAnd(e) ==
    BoolToInt(StrictEq(e, Null)) * BoolToInt(StrictEq(e, Str("null"))) # 0

\* The test of countNull's loop body: x[i] === null | x[i] === 'null'.
\* === binds tighter than |, so the two comparisons are OR-ed.
countNullTest(e) == BitOr01(BoolToInt(StrictEq(e, Null)), BoolToInt(StrictEq(e, Str("null")))) # 0

RECURSIVE countNull(_)
countNull(x) ==
    IF x = << >> THEN 0
    ELSE countNull(SubSeq(x, 1, Len(x) - 1)) + (IF countNullTest(x[Len(x)]) THEN 1 ELSE 0)

(***************************************************************************)
(* Descriptive layer                                                       *)
(***************************************************************************)
\* mean's loop: sum += +x[i] over the coerced copy.
RECURSIVE meanSum(_)
meanSum(x) ==
    IF x = << >> THEN Fin(0)
    ELSE Add(meanSum(SubSeq(x, 1, Len(x) - 1)), ToNumber(x[Len(x)]))

mean(x) == Div(meanSum(mapMakeNumeric(x)), Int2Num(Len(x)))

RECURSIVE varianceDiff(_, _)
varianceDiff(x, m) ==
    IF x = << >> THEN Fin(0)
    ELSE Add(varianceDiff(SubSeq(x, 1, Len(x) - 1), m),
             Pow(Sub(ToNumber(x[Len(x)]), m), 2))

variance(x) == Div(varianceDiff(x, mean(x)), Int2Num(Len(x)))

\* The comparator of quantile's sort, function(a, b) { return a - b; }
sortCompare(a, b) == Sub(ToNumber(a), ToNumber(b))

\* Array.prototype.sort with that comparator: a stable sort (insertion of
\* each element after the last one it does not precede).
RECURSIVE InsertSorted(_, _)
InsertSorted(s, e) ==
    IF s = << >> THEN <<e>>
    ELSE IF SignOf(sortCompare(e, s[Len(s)])) < 0
         THEN Append(InsertSorted(SubSeq(s, 1, Len(s) - 1), e), s[Len(s)])
         ELSE Append(s, e)

RECURSIVE SortNumeric(_)
SortNumeric(s) ==
    IF s = << >> THEN << >>
    ELSE InsertSorted(SortNumeric(SubSeq(s, 1, Len(s) - 1)), s[Len(s)])

\* x[i] for a zero-based index i: undefined outside the array.
At(x, i) == IF i >= 0 /\ i < Len(x) THEN x[i + 1] ELSE Undefined

\* The array quantile works on: x.map(makeNumeric), a new array, sorted.
quantileSorted(x) == SortNumeric(mapMakeNumeric(x))

\* The caller's array had quantile sorted it in place, without the copy.
quantileCallerArrayInPlace(x) == quantileSorted(x)

\* The array the caller passed, as quantile leaves it: map() copied it
\* before the sort, so the sort never touches it.
quantileCallerArray(x) == x

\* The branch test of quantile (line 182).
quantileHasBase(s, base) == ~StrictEq(At(s, base), Undefined)

\* q is a fixed-point number in [0, 1].
quantile(x, q) ==
    LET s == quantileSorted(x)
        position == Mul(Int2Num(Len(s) - 1), q)
        base == Floor(position)
        rest == Sub(position, Int2Num(base))
    IN  IF Len(s) = 0 THEN Fin(0)
        ELSE IF quantileHasBase(s, base)
             THEN Add(ToNumber(At(s, base)),
                      Mul(rest, Sub(ToNumber(At(s, base + 1)), ToNumber(At(s, base)))))
             ELSE At(s, base)

median(x) == quantile(x, Fin(Scale \div 2))

\* Math.min.apply(Math, x) and Math.max.apply(Math, x)
RECURSIVE MathMin(_)
MathMin(x) ==
    IF x = << >> THEN Infinity
    ELSE LET r == MathMin(SubSeq(x, 1, Len(x) - 1))
             e == ToNumber(x[Len(x)])
         IN  IF IsNaN(r) \/ IsNaN(e) THEN NaN ELSE IF Less(e, r) THEN e ELSE r

RECURSIVE MathMax(_)
MathMax(x) ==
    IF x = << >> THEN NegInfinity
    ELSE LET r == MathMax(SubSeq(x, 1, Len(x) - 1))
             e == ToNumber(x[Len(x)])
         IN  IF IsNaN(r) \/ IsNaN(e) THEN NaN ELSE IF Less(r, e) THEN e ELSE r

SummaryKeys == {"minimum", "maximum", "mean", "median", "null"}
QuantileKeys == {"quantile 25%", "quantile 75%"}

summary(x, addQuantile) ==
    LET base == [key \in SummaryKeys |->
                   CASE key = "minimum" -> MathMin(x)
                     [] key = "maximum" -> MathMax(x)
                     [] key = "mean" -> mean(x)
                     [] key = "median" -> median(x)
                     [] OTHER -> Int2Num(countNull(x))]
    IN  IF addQuantile
        THEN Obj([key \in SummaryKeys \cup QuantileKeys |->
                    IF key \in SummaryKeys THEN base[key]
                    ELSE IF key = "quantile 25%" THEN quantile(x, Fin(Scale \div 4))
                    ELSE quantile(x, Fin(3 * (Scale \div 4)))])
        ELSE Obj(base)

(***************************************************************************)
(* Distribution approximation layer                                        *)
(***************************************************************************)
\* The coefficients a1..a6 of Abramowitz & Stegun 26.2.19, in units of 10^-10.
A1 == 498673470
A2 == 211410061
A3 == 32776263
A4 == 380036
A5 == 488906
A6 == 53830
CoefSplit == 1000 * 100

\* a * x for a coefficient a given in units of 10^-10 = 1 / CoefSplit^2,
\* computed on the halves of a and of x so that no intermediate leaves 32 bits.
CoefMul(a, x) ==
    IF IsNaN(x) THEN NaN
    ELSE IF ~IsFin(x) THEN x
    ELSE LET m == Abs(x.v)
             mh == m \div CoefSplit
             ml == m % CoefSplit
             ah == a \div CoefSplit
             al == a % CoefSplit
             hi == mh * ah + ((ml * ah) \div CoefSplit)
             rest == ((ml * ah) % CoefSplit) + mh * al + ((ml * (al \div 100)) \div 1000)
             frac == (rest \div CoefSplit) + (IF 2 * (rest % CoefSplit) >= CoefSplit THEN 1 ELSE 0)
         IN  Signed(Sgn(x.v), Clip(hi + frac))

\* 1 + a1 x + a2 x^2 + a3 x^3 + a4 x^4 + a5 x^5 + a6 x^6
Polynomial(x) ==
    Add(Add(Add(Add(Add(Add(Int2Num(1), CoefMul(A1, x)), CoefMul(A2, Pow(x, 2))),
        CoefMul(A3, Pow(x, 3))), CoefMul(A4, Pow(x, 4))), CoefMul(A5, Pow(x, 5))),
        CoefMul(A6, Pow(x, 6)))

\* p = 2 * (1 / (2 * Math.pow(polynomial, 16)))
PValue(x) == Mul(Int2Num(2), Div(Int2Num(1), Mul(Int2Num(2), Pow(Polynomial(x), 16))))

\* df1 and df2 are numbers.
fDistributionX(f, df1, df2) ==
    LET c == Div(df2, Sub(df2, Int2Num(2)))
    IN  Div(Sub(f, c),
            Mul(c, Sqrt(Div(Mul(Int2Num(2), Sub(Add(df1, df2), Int2Num(2))),
                            Mul(df1, Sub(df2, Int2Num(4)))))))

fDistribution(f, df1, df2) == PValue(fDistributionX(f, df1, df2))

tDistributionX(df, t) ==
    Div(Mul(t, Sub(Int2Num(1), Div(Int2Num(1), Mul(Int2Num(4), df)))),
        Sqrt(Add(Int2Num(1), Div(Pow(t, 2), Mul(Int2Num(2), df)))))

tDistribution(df, t) == PValue(tDistributionX(df, t))

(***************************************************************************)
(* Inferential layer                                                       *)
(***************************************************************************)
\* One call of a distribution function, as the tests below make it.
Call(fn, args) == [fn |-> fn, args |-> args]

\* The squared errors of one sample against its mean, summed from 0.
RECURSIVE sampleSquaredErrors(_, _)
sampleSquaredErrors(sample, m) ==
    IF sample = << >> THEN Fin(0)
    ELSE Add(sampleSquaredErrors(SubSeq(sample, 1, Len(sample) - 1), m),
             Pow(Sub(ToNumber(sample[Len(sample)]), m), 2))

\* data is a sequence of samples (sequences).
sumSquaredErrors(data) ==
    LET means == [i \in 1..Len(data) |-> mean(data[i])]
        se == [i \in 1..Len(data) |-> sampleSquaredErrors(data[i], means[i])]
    IN  SumNum(se)

RECURSIVE treatmentSum(_, _)
treatmentSum(overallMean, means) ==
    IF means = << >> THEN Fin(0)
    ELSE Add(treatmentSum(overallMean, SubSeq(means, 1, Len(means) - 1)),
             Pow(Sub(means[Len(means)], overallMean), 2))

\* sumSquaredTreatment without the scaling by means.length - 1.
sumSquaredTreatmentUnscaled(overallMean, means) == treatmentSum(overallMean, means)

sumSquaredTreatment(overallMean, means) ==
    Mul(treatmentSum(overallMean, means), Int2Num(Len(means) - 1))

\* x is a sequence of samples; m and n are whole numbers.
fStatistic(x, m, n) ==
    LET means == [i \in 1..Len(x) |-> mean(x[i])]
        overallMean == mean(means)
        sse == sumSquaredErrors(x)
        sst == sumSquaredTreatment(overallMean, means)
        mse == Div(sse, Int2Num(n - m))
        mst == Div(sst, Int2Num(m - 1))
    IN  Div(mst, mse)

RECURSIVE totalLength(_)
totalLength(groups) ==
    IF groups = << >> THEN 0
    ELSE totalLength(SubSeq(groups, 1, Len(groups) - 1)) + Len(groups[Len(groups)])

\* The validation of anova without the test of the elements.
anovaValidOuterOnly(x) == x.t = "array"

\* The structural validation of anova (lines 4..12).
anovaValid(x) == x.t = "array" /\ \A i \in 1..Len(x.a) : x.a[i].t = "array"

\* anova(x) for a JavaScript value x: the value returned and the calls made
\* to fDistribution.
anova(x) ==
    IF ~anovaValid(x) THEN [ret |-> False, calls |-> << >>]
    ELSE LET groups == [i \in 1..Len(x.a) |-> x.a[i].a]
             m == Len(groups)
             n == totalLength(groups)
             df1 == Int2Num(m - 1)
             df2 == Int2Num(n - 1)
             f == fStatistic(groups, m, n)
         IN  [calls |-> <<Call("fDistribution", <<f, df1, df2>>)>>,
              ret |-> fDistribution(f, df1, df2)]

\* Welch's formula.
degreesOfFreedom(x, y) ==
    LET nx == Int2Num(Len(x))
        ny == Int2Num(Len(y))
        xVar == variance(x)
        yVar == variance(y)
        numerator == Pow(Add(Div(xVar, nx), Div(yVar, ny)), 2)
        denominator == Add(Div(Pow(Div(xVar, nx), 2), Sub(nx, Int2Num(1))),
                           Div(Pow(Div(yVar, ny), 2), Sub(ny, Int2Num(1))))
    IN  Div(numerator, denominator)

\* The filter of tTest without the test for undefined.
tTestKeepsUndefined(e) == ~StrictEq(e, Null)

\* The filter of tTest: a !== null && a !== undefined.
tTestKeeps(e) == ~StrictEq(e, Null) /\ ~StrictEq(e, Undefined)

\* The least count of kept entries each sample needs (line 273).
tTestMinimum == 3

tTest(x, y) ==
    LET fx == SelectSeq(x, tTestKeeps)
        fy == SelectSeq(y, tTestKeeps)
        nx == Len(fx)
        ny == Len(fy)
    IN  IF nx >= tTestMinimum /\ ny >= tTestMinimum
        THEN LET xMean == mean(fx)
                 yMean == mean(fy)
                 xVar == variance(fx)
                 yVar == variance(fy)
                 t == MathAbs(Div(Sub(xMean, yMean),
                                  Sqrt(Add(Div(xVar, Int2Num(nx)), Div(yVar, Int2Num(ny))))))
                 df == degreesOfFreedom(fx, fy)
             IN  [calls |-> <<Call("tDistribution", <<df, t>>)>>,
                  ret |-> tDistribution(df, t)]
        ELSE [ret |-> NaN, calls |-> << >>]

\* The pair filter of pearsonCorrelation: !isNaN(y[c]) && !isNaN(x[c]).
pearsonKeeps(xc, yc) == ~GlobalIsNaN(yc) /\ ~GlobalIsNaN(xc)

\* The indices c of y whose pair is kept, in order.
RECURSIVE pearsonKept(_, _, _)
pearsonKept(x, y, c) ==
    IF c > Len(y) THEN << >>
    ELSE (IF pearsonKeeps(At(x, c - 1), y[c]) THEN <<c>> ELSE << >>)
         \o pearsonKept(x, y, c + 1)

\* More than this many kept pairs are needed (line 134).
pearsonThreshold == 10

RECURSIVE SumProducts(_, _)
SumProducts(u, v) ==
    IF u = << >> THEN Fin(0)
    ELSE Add(SumProducts(SubSeq(u, 1, Len(u) - 1), SubSeq(v, 1, Len(v) - 1)),
             Mul(u[Len(u)], v[Len(v)]))

pearsonCorrelation(x, y) ==
    IF Len(x) # Len(y) THEN [ret |-> Str("failed"), calls |-> << >>]
    ELSE LET kept == pearsonKept(x, y, 1)
             newX == [i \in 1..Len(kept) |-> ToNumber(x[kept[i]])]
             newY == [i \in 1..Len(kept) |-> ToNumber(y[kept[i]])]
         IN  IF Len(newY) > pearsonThreshold
             THEN LET n == Int2Num(Len(newY))
                      xSum == SumNum(newX)
                      ySum == SumNum(newY)
                      xSquaredSum == SumProducts(newX, newX)
                      ySquaredSum == SumProducts(newY, newY)
                      xyProd == SumProducts(newX, newY)
                      numerator == Sub(xyProd, Div(Mul(xSum, ySum), n))
                      denominator == Mul(Sqrt(Sub(xSquaredSum, Div(Pow(xSum, 2), n))),
                                         Sqrt(Sub(ySquaredSum, Div(Pow(ySum, 2), n))))
                      r == Div(numerator, denominator)
                      df == Int2Num(Len(newY) - 2)
                      t == MathAbs(Div(r, Sqrt(Div(Sub(Int2Num(1), Pow(r, 2)), df))))
                      p == tDistribution(df, t)
                  IN  [calls |-> <<Call("tDistribution", <<df, t>>)>>,
                       ret |-> Obj([key \in {"r", "p"} |-> IF key = "r" THEN r ELSE p])]
             ELSE [ret |-> Str("failed"), calls |-> << >>]

(***************************************************************************)
(* The caller: arguments drawn from bounded sets, one call per step        *)
(***************************************************************************)
VARIABLES
    shape,    \* which entry points the arguments fit: "sample", "groups", "two", "pairs"
    x,        \* the first argument, as the caller holds it
    y,        \* the second argument of tTest and pearsonCorrelation
    op,       \* the function called last ("none" before the first call)
    arg,      \* its scalar argument: quantile's q, summary's addQuantile
    result,   \* the value it returned
    calls     \* the calls it made to tDistribution and fDistribution

vars == <<shape, x, y, op, arg, result, calls>>

MaxLen == 3
MaxGroups == 3
MaxGroupLen == 2
MaxTLen == 4
MaxPairs == 12

\* All sequences over S of length lo..hi.
SeqsOf(S, lo, hi) == UNION {[1..n -> S] : n \in lo..hi}

True == [t |-> "boolean", k |-> "true", v |-> 0, a |-> << >>]

\* The entries a sample may hold: numbers, numeric text, the missing markers.
SampleElems == {Int2Num(0), Int2Num(1), Int2Num(2), Null, Undefined, NaN,
                Str("null"), Str(""), Str("3")}
Quantiles == {Fin(0), Fin(Scale \div 4), Fin(Scale \div 2), Fin(3 * (Scale \div 4)), Fin(Scale)}

InitSample ==
    /\ shape = "sample"
    /\ x \in SeqsOf(SampleElems, 0, MaxLen)
    /\ y = << >>
    /\ op = "none" /\ arg = Undefined /\ result = Undefined /\ calls = << >>

Returns(name, a, r, c) ==
    /\ op' = name
    /\ arg' = a
    /\ result' = r
    /\ calls' = c
    /\ UNCHANGED shape

CallCountNull ==
    /\ shape = "sample"
    /\ Returns("countNull", Undefined, Int2Num(countNull(x)), << >>)
    /\ UNCHANGED <<x, y>>

CallMean ==
    /\ shape = "sample"
    /\ Returns("mean", Undefined, mean(x), << >>)
    /\ UNCHANGED <<x, y>>

CallVariance ==
    /\ shape = "sample"
    /\ Returns("variance", Undefined, variance(x), << >>)
    /\ UNCHANGED <<x, y>>

CallQuantile ==
    /\ shape = "sample"
    /\ \E q \in Quantiles : Returns("quantile", q, quantile(x, q), << >>)
    /\ x' = quantileCallerArray(x)
    /\ UNCHANGED y

CallMedian ==
    /\ shape = "sample"
    /\ Returns("median", Undefined, median(x), << >>)
    /\ x' = quantileCallerArray(x)
    /\ UNCHANGED y

CallSummary ==
    /\ shape = "sample"
    /\ \E flag \in BOOLEAN :
          Returns("summary", IF flag THEN True ELSE False, summary(x, flag), << >>)
    /\ x' = quantileCallerArray(x)
    /\ UNCHANGED y

NextSample ==
    \/ CallCountNull
    \/ CallMean
    \/ CallVariance
    \/ CallQuantile
    \/ CallMedian
    \/ CallSummary

SpecSample == InitSample /\ [][NextSample]_vars

\* --- anova ---------------------------------------------------------------
GroupValues == {1, 2}
\* The samples of a group set.  anova only sums over a sample, so each is
\* listed once, in ascending order.
Ascending(s) == \A i \in 1..(Len(s) - 1) : s[i] <= s[i + 1]
Groups == {Arr([i \in 1..Len(s) |-> Int2Num(s[i])]) :
             s \in {g \in SeqsOf(GroupValues, 0, MaxGroupLen) : Ascending(g)}}
\* What anova may be handed: a scalar, or an array of samples and scalars.
GroupSets == {Int2Num(1), Null, Str("abc")}
             \cup {Arr(s) : s \in SeqsOf(Groups \cup {Int2Num(3)}, 0, MaxGroups)}

InitGroups ==
    /\ shape = "groups"
    /\ x \in GroupSets
    /\ y = << >>
    /\ op = "none" /\ arg = Undefined /\ result = Undefined /\ calls = << >>

CallAnova ==
    /\ shape = "groups"
    /\ LET run == anova(x) IN Returns("anova", Undefined, run.ret, run.calls)
    /\ UNCHANGED <<x, y>>

SpecAnova == InitGroups /\ [][CallAnova]_vars

\* --- tTest ---------------------------------------------------------------
\* The first sample is any sequence of these entries; the second is the
\* same sample again, or a cut of a fixed series with missing entries.
TElems == {Int2Num(1), Int2Num(2), Null, Undefined}
TSeries(i) == IF i % 4 = 2 THEN Null
              ELSE IF i % 4 = 0 THEN Undefined
              ELSE Int2Num((i % 3) + 1)

InitTwo ==
    /\ shape = "two"
    /\ x \in SeqsOf(TElems, 0, MaxTLen)
    /\ y \in {x} \cup {[i \in 1..n |-> TSeries(i)] : n \in 0..(2 * MaxTLen)}
    /\ op = "none" /\ arg = Undefined /\ result = Undefined /\ calls = << >>

CallTTest ==
    /\ shape = "two"
    /\ LET run == tTest(x, y) IN Returns("tTest", Undefined, run.ret, run.calls)
    /\ UNCHANGED <<x, y>>

SpecTTest == InitTwo /\ [][CallTTest]_vars

\* --- pearsonCorrelation --------------------------------------------------
\* Paired observations: two fixed numeric series, cut to a length each, with
\* the first entries of x and an entry of y replaced by any kind of value.
PairElems == {Int2Num(4), Null, Undefined, NaN, Str("null"), Str("2")}
SeriesX(i) == Int2Num((i * i) % 7)
SeriesY(i) == Int2Num((3 * i) % 5)
PairLengths == (MaxPairs - 3)..MaxPairs

InitPairs ==
    /\ shape = "pairs"
    /\ \E nx \in PairLengths, ny \in PairLengths, e1 \in PairElems, e2 \in PairElems,
          e3 \in PairElems :
          /\ x = [i \in 1..nx |-> IF i = 1 THEN e1 ELSE IF i = 2 THEN e2 ELSE SeriesX(i)]
          /\ y = [i \in 1..ny |-> IF i = 3 THEN e3 ELSE SeriesY(i)]
    /\ op = "none" /\ arg = Undefined /\ result = Undefined /\ calls = << >>

CallPearson ==
    /\ shape = "pairs"
    /\ LET run == pearsonCorrelation(x, y)
       IN  Returns("pearsonCorrelation", Undefined, run.ret, run.calls)
    /\ UNCHANGED <<x, y>>

SpecPearson == InitPairs /\ [][CallPearson]_vars

\* --- the whole module ----------------------------------------------------
Init == InitSample \/ InitGroups \/ InitTwo \/ InitPairs

Next ==
    \/ NextSample
    \/ CallAnova
    \/ CallTTest
    \/ CallPearson

Spec == Init /\ [][Next]_vars

(***************************************************************************)
(* Properties                                                              *)
(***************************************************************************)
IsFiniteNumber(e) == e.t = "number" /\ e.k = "fin"
AllNumbers(s) == \A i \in 1..Len(s) : IsFiniteNumber(s[i])
IsMissing(e) == e.t = "null" \/ e.t = "undefined"
ValidCount(s) == Cardinality({i \in 1..Len(s) : ~IsMissing(s[i])})
NonDescending(s) == \A i \in 1..(Len(s) - 1) : ~Less(s[i + 1], s[i])

\* The ascending arrangement of a sequence of finite numbers.
RefSorted(s) ==
    CHOOSE u \in [1..Len(s) -> {s[i] : i \in 1..Len(s)}] :
        /\ NonDescending(u)
        /\ \A e \in {s[i] : i \in 1..Len(s)} :
              Cardinality({i \in 1..Len(s) : u[i] = e}) = Cardinality({i \in 1..Len(s) : s[i] = e})

\* The reference linear-interpolation estimator on a sequence of finite numbers.
RefQuantile(s0, q) ==
    IF Len(s0) = 0 THEN Fin(0)
    ELSE LET s == RefSorted(s0)
             position == Mul(Int2Num(Len(s) - 1), q)
             base == Floor(position)
             rest == Sub(position, Int2Num(base))
         IN  IF base + 2 <= Len(s)
             THEN Add(s[base + 1], Mul(rest, Sub(s[base + 2], s[base + 1])))
             ELSE s[base + 1]

\* C1: quantile(x, q), and median(x) = quantile(x, 0.5), equal the reference
\* linear-interpolation estimator on every array of numbers: 0 on the empty
\* array, s[base] + rest * (s[base+1] - s[base]) when s[base+1] exists and
\* s[base] when it does not (so the largest element at q = 1, and the single
\* element of a one-element sample).
C1_QuantileIsReference ==
    (shape = "sample" /\ op \in {"quantile", "median"} /\ AllNumbers(x))
        => result = RefQuantile(x, IF op = "median" THEN Fin(Scale \div 2) ELSE arg)

\* C2 as stated: after a call of quantile, median or summary the caller's
\* array holds its elements in ascending numeric order.
C2_CallerArraySorted ==
    (shape = "sample" /\ op \in {"quantile", "median", "summary"} /\ AllNumbers(x))
        => NonDescending(x)

\* C2 as amended: no call of any function of the module changes the arrays
\* the caller passed; quantile sorts a coerced copy.
C2_ArgumentsUntouched == [][x' = x /\ y' = y]_vars

\* C2 witness: quantile has returned on a two-element array that is still in
\* descending order.
C2_Witness ==
    /\ shape = "sample" /\ op = "quantile"
    /\ Len(x) = 2 /\ AllNumbers(x) /\ Less(x[2], x[1])
    /\ result = Fin(Scale + Scale \div 2)

\* An array of at least two non-empty arrays of numbers.
WellFormedGroups(g) ==
    /\ g.t = "array"
    /\ Len(g.a) >= 2
    /\ \A i \in 1..Len(g.a) : g.a[i].t = "array" /\ Len(g.a[i].a) >= 1 /\ AllNumbers(g.a[i].a)

\* C3: for every array of m >= 2 non-empty arrays of numbers anova returns a
\* number p with 0 <= p <= 1, never NaN, an infinity or a value above 1.
C3_PValueInUnitInterval ==
    (shape = "groups" /\ op = "anova" /\ WellFormedGroups(x))
        => (result.t = "number" /\ result.k = "fin" /\ result.v >= 0 /\ result.v <= Scale)

\* C4: tTest(x, y) with y holding the same values as x, x having at least 3
\* entries that are neither null nor undefined, hands t = 0 to tDistribution
\* and returns p = 1, whatever the entries (all equal included).
C4_IdenticalSamples ==
    (shape = "two" /\ op = "tTest" /\ y = x /\ ValidCount(x) >= 3)
        => (/\ Len(calls) = 1
            /\ calls[1].args[2] = Fin(0)
            /\ result = Int2Num(1))

\* C5: tTest returns NaN, and calls no distribution function, whenever x or
\* y has fewer than 3 entries left once every null and undefined entry is
\* removed; the removed entries do not count.
C5_TooFewEntries ==
    (shape = "two" /\ op = "tTest" /\ (ValidCount(x) < 3 \/ ValidCount(y) < 3))
        => (result = NaN /\ calls = << >>)

\* C5 witness: x has 3 or more entries of which fewer than 3 are kept, y
\* has enough, and tTest has returned NaN.
C5_Witness ==
    /\ shape = "two" /\ op = "tTest"
    /\ Len(x) >= 3 /\ ValidCount(x) < 3 /\ ValidCount(y) >= 3
    /\ result = NaN

\* A value that is present and numeric: a finite number or numeric text.
IsNumericValue(e) ==
    \/ IsFiniteNumber(e)
    \/ e.t = "string" /\ e.k # "" /\ ~IsNaN(StringToNumber(e.k))
ValidPairs(s, u) ==
    Cardinality({i \in 1..Len(s) : i <= Len(u) /\ IsNumericValue(s[i]) /\ IsNumericValue(u[i])})

\* C6: pearsonCorrelation returns "failed" when the lengths differ and when
\* fewer than 11 pairs remain once every index holding a missing or
\* non-numeric value in x or y is dropped, and an {r, p} record otherwise.
C6_FailedBelowElevenValidPairs ==
    (shape = "pairs" /\ op = "pearsonCorrelation")
        => ((result.t = "string" /\ result.k = "failed")
               <=> (Len(x) # Len(y) \/ ValidPairs(x, y) < 11))

\* C7: anova returns false exactly when x is not an array or some element of
\* x is not an array; on every array of arrays it goes on to fDistribution
\* and returns a number.
C7_FalseIffNotArrayOfArrays ==
    (shape = "groups" /\ op = "anova")
        => LET arrayOfArrays == x.t = "array" /\ \A i \in 1..Len(x.a) : x.a[i].t = "array"
           IN  /\ (result = False) <=> ~arrayOfArrays
               /\ arrayOfArrays => (result.t = "number" /\ Len(calls) = 1)
               /\ ~arrayOfArrays => calls = << >>

\* C7 witness: anova has returned false on an array that holds an array and
\* a number.
C7_Witness ==
    /\ shape = "groups" /\ op = "anova"
    /\ x.t = "array" /\ Len(x.a) = 2
    /\ x.a[1].t = "array" /\ x.a[2].t = "number"
    /\ result = False

\* C8: countNull(x) is the number of indices holding null or the text
\* "null", each counted once, nothing else counted.
C8_CountNull ==
    (shape = "sample" /\ op = "countNull")
        => result = Int2Num(Cardinality({i \in 1..Len(x) :
                        x[i].t = "null" \/ (x[i].t = "string" /\ x[i].k = "null")}))

\* C8 witness: countNull has returned 2 on [0, null, "null"].
C8_Witness ==
    /\ shape = "sample" /\ op = "countNull"
    /\ x = <<Int2Num(0), Null, Str("null")>>
    /\ result = Int2Num(2)

\* What an entry adds to the sum of mean: its value when it is a finite
\* number or numeric text, 0 when it is null, missing or not numeric.
Contribution(e) ==
    IF IsFiniteNumber(e) THEN e
    ELSE IF e.t = "string" /\ ~IsNaN(StringToNumber(e.k)) THEN StringToNumber(e.k)
    ELSE Fin(0)

\* C9: on a non-empty array mean(x) is the sum of the entries, a null or
\* non-numeric entry adding 0, divided by x.length, and is never NaN; on the
\* empty array it is NaN.
C9_MeanDividesByLength ==
    (shape = "sample" /\ op = "mean")
        => IF Len(x) = 0 THEN result = NaN
           ELSE /\ result = Div(SumNum([i \in 1..Len(x) |-> Contribution(x[i])]), Int2Num(Len(x)))
                /\ result # NaN

\* C9 witness: mean([1, null, 2]) has returned 1, the missing entry counted
\* in the divisor.
C9_Witness ==
    /\ shape = "sample" /\ op = "mean"
    /\ x = <<Int2Num(1), Null, Int2Num(2)>>
    /\ result = Int2Num(1)

\* The reference quantities of a one-way ANOVA on well-formed groups.
RefGroupMean(g) == Div(SumNum(g.a), Int2Num(Len(g.a)))
RefGroupMeans(g) == [i \in 1..Len(g.a) |-> RefGroupMean(g.a[i])]
RefMeanOfMeans(g) == Div(SumNum(RefGroupMeans(g)), Int2Num(Len(g.a)))
RefSquare(d) == Mul(d, d)
\* The sum over the groups of (group mean - mean of group means)^2, unscaled.
RefTreatment(g) ==
    SumNum([i \in 1..Len(g.a) |-> RefSquare(Sub(RefGroupMeans(g)[i], RefMeanOfMeans(g)))])
RefGroupErrors(s, m) == SumNum([j \in 1..Len(s) |-> RefSquare(Sub(s[j], m))])
RefSSE(g) == SumNum([i \in 1..Len(g.a) |-> RefGroupErrors(g.a[i].a, RefGroupMeans(g)[i])])
RefTotal(g) == totalLength([i \in 1..Len(g.a) |-> g.a[i].a])

\* C10: for m >= 2 groups with n > m observations anova hands fDistribution
\* F = MST / MSE, df1 = m - 1 and df2 = n - 1, where MSE = SSE / (n - m) and
\* MST = SST / (m - 1) with SST = (m - 1) * (sum of squared deviations of the
\* group means from their mean), so MST is that unscaled sum.
C10_FStatistic ==
    (shape = "groups" /\ op = "anova" /\ WellFormedGroups(x) /\ RefTotal(x) > Len(x.a))
        => LET m == Len(x.a)
               n == RefTotal(x)
               mse == Div(RefSSE(x), Int2Num(n - m))
               sst == Mul(Int2Num(m - 1), RefTreatment(x))
               mst == Div(sst, Int2Num(m - 1))
           IN  /\ mst = RefTreatment(x)
               /\ calls = <<Call("fDistribution",
                                 <<Div(mst, mse), Int2Num(m - 1), Int2Num(n - 1)>>)>>

\* C10 witness: anova has handed a finite, positive F to fDistribution for
\* three groups of two observations.
C10_Witness ==
    /\ shape = "groups" /\ op = "anova" /\ WellFormedGroups(x)
    /\ Len(x.a) = 3 /\ RefTotal(x) = 6
    /\ Len(calls) = 1 /\ calls[1].args[1].k = "fin" /\ calls[1].args[1].v > 0

=============================================================================
